---- MODULE Spec2Model ----
(***************************************************************************)
(* MedAssist.AI ingestion pipeline.                                        *)
(*                                                                         *)
(* Part 1: the checkpointed fetch orchestrator                             *)
(*         (scripts/fetch_all_checkpointed.py).                            *)
(* Part 2: the fetchers' artifact and manifest writing (src/fetchers/*.py, *)
(*         src/storage/writer.py, src/storage/metadata.py).                *)
(* Part 3: the Deduplicator (scripts/cleanup_duplicate_raw.py).            *)
(* Part 4: the ManifestPruner (scripts/cleanup_metadata.py).               *)
(* Part 5: the symptom index build and the symptom queries                 *)
(*         (src/indexing/orphanet_index.py).                               *)
(* Part 6: the transport of the fetchers: rate limit and retry             *)
(*         (src/fetchers/base.py).                                         *)
(* Part 7: the pipeline runner (scripts/run_pipeline_with_checkpoint.py)   *)
(*         and the ingestion DAG (dags/medassist_ingestion_dag.py).        *)
(***************************************************************************)
EXTENDS Integers, Sequences, FiniteSets, TLC

(***************************************************************************)
(* Python / JSON values, tagged.  t is the type, l the elements of a list  *)
(* (or the characters of a string when it is iterated), s the text of a    *)
(* string or of a number.                                                  *)
(***************************************************************************)
PyNone == [t |-> "null", l |-> <<>>, s |-> ""]

PyAbsent == [t |-> "absent", l |-> <<>>, s |-> ""]

PyStr(x) == [t |-> "str", l |-> <<>>, s |-> x]

PyList(q) == [t |-> "list", l |-> q, s |-> ""]

PyNum(x) == [t |-> "num", l |-> <<>>, s |-> x]

\* the JSON string "ab": list("ab") is ['a', 'b']
PyText == [t |-> "str", l |-> <<"a", "b">>, s |-> "ab"]

Truthy(v) ==
    \/ v.t = "str" /\ v.s # ""
    \/ v.t = "num" /\ v.s # "0"
    \/ v.t = "list" /\ v.l # <<>>

Range(q) == {q[i] : i \in 1..Len(q)}

(***************************************************************************)
(* CONFIG: the fixed, ordered job list (keys only; the display name and    *)
(* the parameter bag do not influence control flow).                       *)
(***************************************************************************)
CONFIG ==
    << "orphanet", "pubmed", "pmc", "openfda_label", "openfda_event",
       "rxnorm", "who", "ncbi_bookshelf", "openstax" >>

NJobs == Len(CONFIG)

JobKeys == Range(CONFIG)

\* messages of the exceptions a fetch can raise: f"{type(e).__name__}: {str(e)}"
ErrMsgs == {"HTTPError: 503", "ConnectionError: timed out"}

(***************************************************************************)
(* Content of data/.fetch_checkpoint.json.                                 *)
(*   missing     the file does not exist                                   *)
(*   unparsable  bytes json.loads rejects (an empty or cut-off file among  *)
(*               them)                                                     *)
(*   other       valid JSON that is not an object (list, number, ...)      *)
(*   object      a JSON object; completed/last_error are its members       *)
(***************************************************************************)
Missing == [kind |-> "missing", completed |-> PyAbsent, last_error |-> PyAbsent]

Unparsable == [kind |-> "unparsable", completed |-> PyAbsent, last_error |-> PyAbsent]

JsonOther == [kind |-> "other", completed |-> PyAbsent, last_error |-> PyAbsent]

JsonObject(c, e) == [kind |-> "object", completed |-> c, last_error |-> e]

\* {"completed": [], "last_error": None}
DefaultCp == JsonObject(PyList(<<>>), PyNone)

\* json.dumps({"completed": completed, "last_error": last_error}, indent=2)
Dump(completed, last_error) == JsonObject(PyList(completed), last_error)

\* load_checkpoint(): the parsed JSON value, whatever its shape, or the default
load_checkpoint(f) ==
    IF f.kind \in {"missing", "unparsable"} THEN DefaultCp ELSE f

\* cp.get(name, default) on a dict
DictGet(member, default) == IF member.t = "absent" THEN default ELSE member

\* main, lines 72-74: does reading cp raise?
\*   cp.get on a non-dict: AttributeError
\*   list(None), list(5): TypeError
\*   cp['last_error'][:200] on a truthy number: TypeError
MainLoadRaises(cp) ==
    \/ cp.kind # "object"
    \/ DictGet(cp.completed, PyList(<<>>)).t \in {"null", "num"}
    \/ /\ Truthy(DictGet(cp.last_error, PyNone))
       /\ DictGet(cp.last_error, PyNone).t \notin {"str", "list"}

\* list(cp.get("completed", []))
CompletedOf(cp) == DictGet(cp.completed, PyList(<<>>)).l

\* variant: the loop walks CONFIG backwards
JobAt_Reversed(i) == CONFIG[NJobs + 1 - i]

\* line 82: the job the for loop considers at position i
JobAt(i) == CONFIG[i]

\* variant: the membership test never succeeds
AlreadyDone_Never(key, done) == FALSE

\* line 83: key in completed
AlreadyDone(key, done) == key \in Range(done)

\* variant: the key is not appended
OnSuccess_NoAppend(done, key) == done

OnSuccess_Prepend(done, key) == << key >> \o done

\* line 90: completed.append(key)
OnSuccess(done, key) == Append(done, key)

\* variant: --reset leaves completed as loaded
AfterReset_Keep(r, done) == done

\* lines 77-78: completed after the --reset handling
AfterReset(r, done) == IF r THEN <<>> ELSE done

\* variant: a failure saves an empty completed list
FailureCompleted_Wipe(done) == <<>>

\* line 95: the list handed to save_checkpoint when a fetch raised
FailureCompleted(done) == done

\* variant: no sys.exit(1) after a failure, the loop goes on
SaveExit_Continue(p) ==
    CASE p = "reset_save" -> "running"
      [] p = "ok_save" -> "running"
      [] p = "fail_save" -> "running"
      [] p = "final_save" -> "ok"

\* variant: a failure ends the run like a success (exit code 0)
SaveExit_ExitZero(p) ==
    CASE p = "reset_save" -> "running"
      [] p = "ok_save" -> "running"
      [] p = "fail_save" -> "ok"
      [] p = "final_save" -> "ok"

\* where control goes after each save_checkpoint call
\*   line 79 (reset) and line 91 (success): the for loop
\*   line 95 (failure): sys.exit(1);  line 100: return 0
SaveExit(p) ==
    CASE p = "reset_save" -> "running"
      [] p = "ok_save" -> "running"
      [] p = "fail_save" -> "fail"
      [] p = "final_save" -> "ok"

\* the process exit code of a finished run; an uncaught exception exits 1
ExitCode(x) ==
    CASE x = "ok" -> 0
      [] x = "fail" -> 1
      [] x = "traceback" -> 1
      [] OTHER -> -1

SavePcs == {"reset_save", "ok_save", "fail_save", "final_save"}

(***************************************************************************)
(* The fetchers.  A fetch attempt draws its fetch_id from the source name  *)
(* and the clock second, talks to the remote service, and ends by          *)
(* returning the artifact path or by raising.  What the remote service     *)
(* does is the attempt's input:                                            *)
(*   ok          every request succeeds and its body parses                *)
(*   transport   the first request fails after the retries (RequestException)*)
(*   http        the first response has an error status (raise_for_status) *)
(*   parse       the first response's body does not parse (XML or JSON)    *)
(*   api_error   the ESearch answer is JSON with an "error" member         *)
(*   empty       the ESearch answer has an empty idlist                    *)
(*   second      a later request (EFetch, ESummary, PDF text extraction)   *)
(*               fails                                                     *)
(*   fallback    WHO: the first request fails, the fallback URL succeeds   *)
(* The result is the manifest the attempt saves (none, success, failure)   *)
(* and whether fetch raised.                                               *)
(***************************************************************************)
MaxTime == 2

MaxAttempts == 2

Fetchers ==
    {"orphanet", "pubmed", "pmc", "openfda", "rxnorm", "who", "ncbi_bookshelf", "openstax"}

\* _gen_fetch_id: f"{source}_{now:%Y%m%d_%H%M%S}"
gen_fetch_id(source, t) == << source, t >>

FetchIds == {gen_fetch_id(f, t) : f \in Fetchers, t \in 0..MaxTime}

NoAttempt == [fetcher |-> "none", id |-> << "none", 0 >>, raised |-> FALSE]

Returned(m) == [manifest |-> m, raised |-> FALSE]

Raised(m) == [manifest |-> m, raised |-> TRUE]

\* DataWriter.write_raw: the artifact is written, then a manifest with status "success"
write_raw == Returned("success")

\* DataWriter.write_raw_failure, followed by the caller's raise
write_raw_failure == Raised("failure")

\* an exception leaves fetch with nothing written
Propagates == Raised("none")

OrphanetScenarios == {"ok", "transport", "http", "parse"}

\* OrphanetFetcher.fetch
OrphanetFetch(sc) ==
    CASE sc \in {"transport", "http"} -> Propagates
      [] sc = "parse" -> write_raw_failure
      [] OTHER -> write_raw

EutilsScenarios == {"ok", "transport", "http", "parse", "api_error", "empty", "second"}

\* PubMedFetcher.fetch
PubMedFetch(sc) ==
    CASE sc \in {"transport", "http", "parse"} -> Propagates
      [] sc = "api_error" -> write_raw_failure
      [] sc = "empty" -> write_raw
      [] sc = "second" -> Propagates
      [] OTHER -> write_raw

\* PMCFetcher.fetch
PMCFetch(sc) ==
    CASE sc \in {"transport", "http", "parse"} -> Propagates
      [] sc = "api_error" -> write_raw_failure
      [] sc = "empty" -> write_raw
      [] sc = "second" -> Propagates
      [] OTHER -> write_raw

\* NCBIBookshelfFetcher.fetch: an ESummary failure is recorded in the books, not raised
NCBIBookshelfFetch(sc) ==
    CASE sc \in {"transport", "http", "parse"} -> Propagates
      [] sc = "api_error" -> write_raw_failure
      [] sc = "empty" -> write_raw
      [] sc = "second" -> write_raw
      [] OTHER -> write_raw

PlainScenarios == {"ok", "transport", "http", "parse"}

\* OpenFDAFetcher.fetch
OpenFDAFetch(sc) ==
    CASE sc \in {"transport", "http", "parse"} -> Propagates
      [] OTHER -> write_raw

\* RxNormFetcher.fetch
RxNormFetch(sc) ==
    CASE sc \in {"transport", "http", "parse"} -> Propagates
      [] OTHER -> write_raw

WHOScenarios == {"ok", "transport", "http", "parse", "fallback"}

\* WHOFetcher.fetch: transport, http, parse here hit the first request and the fallback
WHOFetch(sc) ==
    CASE sc \in {"transport", "http", "parse"} -> write_raw_failure
      [] sc = "fallback" -> write_raw
      [] OTHER -> write_raw

OpenStaxScenarios == {"ok", "transport", "http", "second"}

\* OpenStaxFetcher.fetch: a failed text extraction is recorded in the chapters
OpenStaxFetch(sc) ==
    CASE sc \in {"transport", "http"} -> Propagates
      [] sc = "second" -> Returned("success")
      [] OTHER -> Returned("success")

Scenarios(f) ==
    CASE f = "orphanet" -> OrphanetScenarios
      [] f \in {"pubmed", "pmc", "ncbi_bookshelf"} -> EutilsScenarios
      [] f \in {"openfda", "rxnorm"} -> PlainScenarios
      [] f = "who" -> WHOScenarios
      [] f = "openstax" -> OpenStaxScenarios

\* fetcher.fetch(**kwargs) of the fetcher class registered for f
Fetch(f, sc) ==
    CASE f = "orphanet" -> OrphanetFetch(sc)
      [] f = "pubmed" -> PubMedFetch(sc)
      [] f = "pmc" -> PMCFetch(sc)
      [] f = "openfda" -> OpenFDAFetch(sc)
      [] f = "rxnorm" -> RxNormFetch(sc)
      [] f = "who" -> WHOFetch(sc)
      [] f = "ncbi_bookshelf" -> NCBIBookshelfFetch(sc)
      [] f = "openstax" -> OpenStaxFetch(sc)

\* save_manifest: <fetch_id>_manifest.json is opened for writing and written
save_manifest(dir, id, status) == [dir EXCEPT ![id] = status]

(***************************************************************************)
(* The raw directories and scripts/cleanup_duplicate_raw.py.               *)
(***************************************************************************)

MaxCount == 2

\* cleanup_duplicate_raw.SOURCES: the (source, subdir) directories it cleans
SOURCES ==
    << << "pubmed", "" >>, << "pmc", "" >>, << "openfda", "label" >>,
       << "openfda", "event" >>, << "rxnorm", "" >>, << "who", "documents" >>,
       << "ncbi_bookshelf", "sections" >>, << "orphanet", "phenotypes" >>,
       << "openstax", "extracted" >> >>

Dirs == Range(SOURCES)

\* JSON values of the member that holds a file's records
JList(n) == [t |-> "list", n |-> n]

JDict(n) == [t |-> "dict", n |-> n]

JNull == [t |-> "null", n |-> 0]

\* the "_header" member of a file: absent, or an object with this fetch_id
NoHeader == [t |-> "absent", id |-> << "none", 0 >>]

Header(id) == [t |-> "ok", id |-> id]

\* Content of a *.json file under raw.  kind "unparsable": json.load raises;
\* "other": the top-level value is no object; "object": an object whose body
\* (its "data" member, or itself) is an object holding val under field.
\* alt is the length of raw_response.approximateGroup.candidate.
UnparsableBody == [kind |-> "unparsable", hdr |-> NoHeader, field |-> "none",
                   val |-> JNull, alt |-> 0]

OtherBody == [kind |-> "other", hdr |-> NoHeader, field |-> "none",
              val |-> JNull, alt |-> 0]

ObjectBody(hdr, field, val, alt) ==
    [kind |-> "object", hdr |-> hdr, field |-> field, val |-> val, alt |-> alt]

\* the member under which each fetcher stores its records (payload of write_raw)
WriterField(source) ==
    CASE source \in {"pubmed", "pmc"} -> "articles"
      [] source = "openfda" -> "results"
      [] source = "rxnorm" -> "drugs"
      [] source = "who" -> "records"
      [] source = "ncbi_bookshelf" -> "books"
      [] source = "orphanet" -> "HPODisorderSetStatus"
      [] source = "openstax" -> "chapters"

\* the member record_count reads for each source
AccessorField(source) ==
    CASE source \in {"pubmed", "pmc"} -> "articles"
      [] source = "openfda" -> "results"
      [] source = "rxnorm" -> "drugs"
      [] source = "who" -> "items"
      [] source = "ncbi_bookshelf" -> "books"
      [] source = "orphanet" -> "HPODisorderSetStatus"
      [] source = "openstax" -> "chapters"
      [] OTHER -> "none"

\* outcome of an expression: a value, or an exception
Value(n) == [ok |-> TRUE, v |-> n]

Raises == [ok |-> FALSE, v |-> 0]

\* len(x)
PyLen(x) == IF x.t \in {"list", "dict"} THEN Value(x.n) ELSE Raises

\* body.get(name, [])
BodyGet(body, name) == IF body.field = name THEN body.val ELSE JList(0)

\* the try block of record_count
CountIn(body, source) ==
    IF body.kind # "object" THEN Raises
    ELSE CASE source = "rxnorm" ->
                LET drugs == PyLen(BodyGet(body, "drugs"))
                IN IF drugs.ok /\ drugs.v = 0 THEN Value(body.alt) ELSE drugs
           [] source = "orphanet" ->
                LET disorders == BodyGet(body, "HPODisorderSetStatus")
                IN IF disorders.t = "list" THEN Value(disorders.n) ELSE Value(1)
           [] source \in {"pubmed", "pmc", "openfda", "who", "ncbi_bookshelf",
                          "openstax"} ->
                PyLen(BodyGet(body, AccessorField(source)))
           [] OTHER -> Value(0)

record_count_ExceptZero(f, source) ==
    LET r == CountIn(f.body, source) IN IF r.ok THEN r.v ELSE 0

\* record_count(path, source, subdir)
record_count(f, source) ==
    LET r == CountIn(f.body, source) IN IF r.ok THEN r.v ELSE 0 - 1

\* main's key(p), the sort key: (-record_count(p, source, subdir), -p.stat().st_mtime)
rank_key(f, source) == << 0 - record_count(f, source), 0 - f.mtime >>

\* tuple comparison k1 <= k2, as sorted uses it
KeyLeq(k1, k2) == k1[1] < k2[1] \/ (k1[1] = k2[1] /\ k1[2] <= k2[2])

\* the files sorted(files, key=key) can put first; glob's order decides ties
First(F, source) ==
    {f \in F : \A g \in F : KeyLeq(rank_key(f, source), rank_key(g, source))}

FilesIn(store, d) == {f \in store : f.dir = d}

SkipsDir_UpToTwo(F) == Cardinality(F) <= 2

\* if len(files) <= 1: continue
SkipsDir(F) == Cardinality(F) <= 1

Survivors_None(files, source) == {{}}

\* the loop body of main for one directory: the sets of files it can leave.
\* ordered[0] is kept and ordered[1:] unlinked, unless the directory is skipped
Survivors(files, source) ==
    IF SkipsDir(files) THEN {files}
    ELSE {{best} : best \in First(files, source)}

\* the directories a fetcher writes its artifact to (subdir of write_raw)
ArtifactDirs(f) ==
    CASE f = "openfda" -> {<< "openfda", "label" >>, << "openfda", "event" >>}
      [] f = "orphanet" -> {<< "orphanet", "phenotypes" >>}
      [] f = "who" -> {<< "who", "documents" >>}
      [] f = "ncbi_bookshelf" -> {<< "ncbi_bookshelf", "sections" >>}
      [] f = "openstax" -> {<< "openstax", "extracted" >>}
      [] OTHER -> {<< f, "" >>}

\* number of records a successful fetch can store
RecordCounts(sc) == IF sc = "empty" THEN {0} ELSE 1..MaxCount

\* write_raw, lines 47-69: <fetch_id>.json in out_dir, opened for writing, with
\* the header and the payload; t is the time of the write
Artifact(f, d, id, n, t) ==
    [dir |-> d, name |-> id, mtime |-> t,
     body |-> ObjectBody(Header(id), WriterField(f), JList(n), 0)]

\* open(file_path, "w") and json.dump: a file of that name is replaced
WriteFile(store, file) ==
    {g \in store : ~(g.dir = file.dir /\ g.name = file.name)} \cup {file}

(***************************************************************************)
(* scripts/cleanup_metadata.py                                             *)
(***************************************************************************)

KeptIds_Empty(store) == {}

\* main, lines 14-23: the fetch_id of the header of every file that parses
KeptIds(store) ==
    {f.body.hdr.id : f \in {g \in store : g.body.kind = "object" /\ g.body.hdr.t = "ok"}}

(***************************************************************************)
(* src/indexing/orphanet_index.py: build_symptom_index                     *)
(***************************************************************************)

MaxDisorders == 2

MaxSymptoms == 3

\* a JSON string given by its characters
Chars(q) == [t |-> "chars", l |-> q, s |-> ""]

\* truth value of a JSON value, as "if x" and "not x" take it
IsTrue(v) == Truthy(v) \/ (v.t = "chars" /\ v.l # <<>>)

IsSpace(c) == c \in {" ", "\t"}

\* str.lower, on the sample alphabet
Lower(c) ==
    CASE c = "F" -> "f"
      [] c = "G" -> "g"
      [] OTHER -> c

RECURSIVE LStrip(_)
LStrip(q) == IF q # <<>> /\ IsSpace(Head(q)) THEN LStrip(Tail(q)) ELSE q

RECURSIVE RStrip(_)
RStrip(q) ==
    IF q # <<>> /\ IsSpace(q[Len(q)]) THEN RStrip(SubSeq(q, 1, Len(q) - 1)) ELSE q

\* re.sub(r"\s+", " ", q)
RECURSIVE Collapse(_)
Collapse(q) ==
    IF q = <<>> THEN <<>>
    ELSE IF IsSpace(Head(q))
         THEN << " " >> \o Collapse(LStrip(q))
         ELSE << Head(q) >> \o Collapse(Tail(q))

_normalize_symptom_NoCollapse(term) ==
    IF ~IsTrue(term) THEN Value(<<>>)
    ELSE IF term.t # "chars" THEN Raises
    ELSE Value([i \in 1..Len(RStrip(LStrip(term.l))) |->
                   Lower(RStrip(LStrip(term.l))[i])])

\* _normalize_symptom(term): the key as a sequence of characters; a term that
\* is true and no string has no strip method
_normalize_symptom(term) ==
    IF ~IsTrue(term) THEN Value(<<>>)
    ELSE IF term.t # "chars" THEN Raises
    ELSE Value(Collapse([i \in 1..Len(RStrip(LStrip(term.l))) |->
                            Lower(RStrip(LStrip(term.l))[i])]))

\* One member of HPODisorderSetStatus.  kind "nodict": the member is no object;
\* "noobj": its "Disorder" is absent or empty; "badobj": its "Disorder" is true
\* and no object; "obj": "Disorder" is an object with these OrphaCode and Name.
\* assoc tells whether HPODisorderAssociationList is an object.
DisorderRecord(kind, code, name, assoc) ==
    [kind |-> kind, code |-> code, name |-> name, assoc |-> assoc]

NoDisorder == DisorderRecord("none", PyAbsent, PyAbsent, FALSE)

\* (None, None) of _extract_disease_and_symptoms
NoDisease == [code |-> "", name |-> PyNone]

ExtractDisease_NameOptional(d) ==
    IF d.kind # "obj" \/ ~IsTrue(d.code) THEN NoDisease
    ELSE [code |-> d.code.s, name |-> d.name]

\* _extract_disease_and_symptoms, lines 40-47 and 51/68: (str(orpha_code), name)
ExtractDisease(d) ==
    IF d.kind # "obj" \/ ~IsTrue(d.code) \/ ~IsTrue(d.name) THEN NoDisease
    ELSE [code |-> d.code.s, name |-> d.name]

\* One member of HPODisorderAssociation: no object, or an object with these
\* HPO.HPOTerm, HPOFrequency.Name and HPO.HPOId (absent members read as "")
Association(isdict, term, freq, id) ==
    [isdict |-> isdict, term |-> term, freq |-> freq, id |-> id]

\* _extract_disease_and_symptoms, lines 49-66: the symptoms the association a
\* of the disorder d adds to the list
ExtractSymptoms(d, a) ==
    IF ExtractDisease(d) = NoDisease \/ ~d.assoc \/ ~a.isdict \/ ~IsTrue(a.term)
    THEN <<>>
    ELSE << [id |-> a.id, term |-> a.term, freq |-> a.freq] >>

EmptyDict == [x \in {} |-> 0]

\* d[k] = v
DictPut(d, k, v) == [x \in DOMAIN d \cup {k} |-> IF x = k THEN v ELSE d[x]]

InBucket(idx, norm, entry) ==
    norm \in DOMAIN idx /\ \E i \in 1..Len(idx[norm]) : idx[norm][i] = entry

Insert_Always(idx, norm, entry) ==
    DictPut(idx, norm, IF norm \in DOMAIN idx THEN Append(idx[norm], entry)
                       ELSE << entry >>)

\* build_symptom_index, lines 121-124
Insert(idx, norm, entry) ==
    IF InBucket(idx, norm, entry) THEN idx
    ELSE DictPut(idx, norm, IF norm \in DOMAIN idx THEN Append(idx[norm], entry)
                            ELSE << entry >>)

\* build_symptom_index, lines 126-131
Payload(idx, info) ==
    [written |-> TRUE, symptom_to_diseases |-> idx,
     disease_count |-> Cardinality(DOMAIN info),
     symptom_count |-> Cardinality(DOMAIN idx)]

NoPayload ==
    [written |-> FALSE, symptom_to_diseases |-> EmptyDict, disease_count |-> 0,
     symptom_count |-> 0]

\* json.dump(payload, f): the file's JSON text; tuples and lists both become
\* JSON arrays
json_dump(payload) ==
    [exists |-> TRUE,
     symptom_to_diseases |->
         [k \in DOMAIN payload.symptom_to_diseases |->
             PyList([i \in 1..Len(payload.symptom_to_diseases[k]) |->
                        PyList(payload.symptom_to_diseases[k][i])])],
     disease_count |-> payload.disease_count,
     symptom_count |-> payload.symptom_count]

\* symptom_index.json does not exist
NoIndexFile ==
    [exists |-> FALSE, symptom_to_diseases |-> EmptyDict, disease_count |-> 0,
     symptom_count |-> 0]

IndexFile(payload) == IF payload.written THEN json_dump(payload) ELSE NoIndexFile

_load_FirstEntry(f) ==
    IF ~f.exists THEN EmptyDict
    ELSE [k \in DOMAIN f.symptom_to_diseases |->
             << f.symptom_to_diseases[k].l[1].l >>]

\* SymptomIndex._load: {k: [tuple(e) for e in v]} of the file's
\* symptom_to_diseases, or the empty mapping when there is no file
_load(f) ==
    IF ~f.exists THEN EmptyDict
    ELSE [k \in DOMAIN f.symptom_to_diseases |->
             [i \in 1..Len(f.symptom_to_diseases[k].l) |->
                 f.symptom_to_diseases[k].l[i].l]]

\* Python's "a in b" on strings
IsSubstring(a, b) ==
    \E i \in 0..(Len(b) - Len(a)) : SubSeq(b, i + 1, i + Len(a)) = a

\* the (orpha, name, freq) triples of a list of entries
Triples(entries) == {<< e[1], e[2], e[3] >> : e \in Range(entries)}

_diseases_for_symptom_AlwaysScan(map, symptom) ==
    LET norm == _normalize_symptom(symptom).v
    IN IF norm = <<>> THEN {}
       ELSE UNION {Triples(map[k]) :
                      k \in {x \in DOMAIN map :
                                IsSubstring(norm, x) \/ IsSubstring(x, norm)}}

\* SymptomIndex._diseases_for_symptom; symptom is a string
_diseases_for_symptom(map, symptom) ==
    LET norm == _normalize_symptom(symptom).v
        direct == IF norm \in DOMAIN map THEN map[norm] ELSE <<>>
    IN IF norm = <<>> THEN {}
       ELSE IF Triples(direct) # {} THEN Triples(direct)
       ELSE UNION {Triples(map[k]) :
                      k \in {x \in DOMAIN map :
                                IsSubstring(norm, x) \/ IsSubstring(x, norm)}}

\* SymptomIndex.query, lines 196-199: ds of every iteration
PerTerm(map, symptoms) ==
    [i \in 1..Len(symptoms) |-> _diseases_for_symptom(map, symptoms[i])]

\* lines 204-207
Common(sets, match_all) ==
    IF match_all
    THEN {t \in sets[1] : \A i \in 1..Len(sets) : t \in sets[i]}
    ELSE UNION {sets[i] : i \in 1..Len(sets)}

\* lines 209-217: one result record
ResultRecord(t, symptoms) ==
    [orpha_code |-> t[1], disease_name |-> t[2], matched_symptoms |-> symptoms,
     frequency |-> t[3], orpha_url |-> << "Expert=", t[1] >>]

query_AllWhenNoSets(map, symptoms, match_all) ==
    LET sets == SelectSeq(PerTerm(map, symptoms), LAMBDA ds : ds # {})
    IN IF sets = <<>>
       THEN {ResultRecord(t, symptoms) :
                t \in UNION {Triples(map[k]) : k \in DOMAIN map}}
       ELSE {ResultRecord(t, symptoms) : t \in Common(sets, match_all)}

\* SymptomIndex.query: the records of the returned list (the list follows the
\* iteration order of the set common)
query(map, symptoms, match_all) ==
    LET sets == SelectSeq(PerTerm(map, symptoms), LAMBDA ds : ds # {})
    IN IF symptoms = <<>> \/ sets = <<>> THEN {}
       ELSE {ResultRecord(t, symptoms) : t \in Common(sets, match_all)}

\* the fetcher objects of one orchestrator run (fetcher_map): their key and
\* the source their constructor names
Instances ==
    {<< "pubmed", "pubmed" >>, << "openfda_label", "openfda" >>,
     << "openfda_event", "openfda" >>}

TransportSources == {i[2] : i \in Instances}

\* _get_rate_limit: 1.0 / rate_limit_per_sec of the source's configuration,
\* in clock ticks
_rate_limit_delay(source) == IF source = "openfda" THEN 2 ELSE 1

StopAfterAttempt == 5

\* what requests.get does: it returns a response or raises
Outcomes ==
    {"response", "requests.Timeout", "requests.ConnectionError",
     "requests.InvalidURL", "ConnectionError", "ValueError"}

\* the subclasses of requests.RequestException among the outcomes
RequestException ==
    {"requests.Timeout", "requests.ConnectionError", "requests.InvalidURL"}

IsRetried_All(e) == e # "response"

\* retry_if_exception_type((requests.RequestException, ConnectionError))
IsRetried(e) == e \in RequestException \cup {"ConnectionError"}

\* wait_exponential(multiplier=1, min=2, max=60), in clock ticks
BackoffWaits == {1, 2}

\* data/.pipeline_checkpoint.json: missing, or the JSON text of an object
\* with the members fetch and symptom_index ("true" or "false")
NoPipelineFile == [exists |-> FALSE, fetch |-> "false", symptom_index |-> "false"]

\* json.dumps of a bool and json.loads of it
JsonBool(b) == IF b THEN "true" ELSE "false"

PyBool(j) == j = "true"

\* run_pipeline_with_checkpoint.load_checkpoint
pipeline_load_checkpoint(f) ==
    IF f.exists
    THEN [fetch |-> PyBool(f.fetch), symptom_index |-> PyBool(f.symptom_index)]
    ELSE [fetch |-> FALSE, symptom_index |-> FALSE]

\* run_pipeline_with_checkpoint.save_checkpoint: the file it leaves
pipeline_save_checkpoint(state) ==
    [exists |-> TRUE, fetch |-> JsonBool(state.fetch),
     symptom_index |-> JsonBool(state.symptom_index)]

Stages == {"fetch", "cleanup", "build"}

NotRun == [st \in Stages |-> "none"]

AfterLoad_AlwaysFetch(state) == "fetch"

\* lines 49-61: what main does after load and reset: start the fetch script,
\* or go on to step 2
AfterLoad(state) == IF ~state.fetch THEN "fetch" ELSE "step2"

AfterFetch_Always(returncode) == "cleanup"

\* lines 50-59: the fetch script has ended; start the cleanup, or sys.exit(1)
AfterFetch(returncode) == IF returncode = "0" THEN "cleanup" ELSE "exit1"

\* lines 64-74: start the build, or end with 0
Step2(state) == IF ~state.symptom_index THEN "build" ELSE "exit0"

\* the DAG's tasks and, for each, the tasks it is set downstream of
Tasks == {"fetch_checkpointed", "cleanup_duplicates", "build_symptom_index"}

Upstream(t) ==
    CASE t = "fetch_checkpointed" -> {}
      [] t = "cleanup_duplicates" -> {"fetch_checkpointed"}
      [] t = "build_symptom_index" -> {"cleanup_duplicates"}

VARIABLES
    file,       \* content of the checkpoint file
    pc,         \* position of the orchestrator process; "idle": no process
    exit,       \* how the last run ended: none, running, ok, fail, traceback, killed
    cp,         \* main's cp
    reset,      \* main's reset
    completed,  \* main's completed
    idx,        \* position of the for loop in CONFIG
    err,        \* last_error argument of the pending save_checkpoint
    opened,     \* write_text has opened (truncated) the file and not yet written
    log,        \* this run's fetch invocations: <<[key, result]>>
    succeeded,  \* keys whose fetch has returned since the last reset
    lastSaved,  \* content written by the last save_checkpoint that finished
    manifests,  \* metadata directory: fetch_id -> status of <fetch_id>_manifest.json
    now,        \* the UTC clock, in seconds
    attempts,   \* number of fetch attempts made
    last,       \* the latest fetch attempt: its fetcher, fetch_id and how it ended
    raw,        \* the *.json files under raw: [dir, name, mtime, body]
    deleted,    \* cleanup_duplicate_raw.main's deleted, after its last run
    unlinked,   \* every file cleanup_duplicate_raw has unlinked ("Deleted:" lines)
    dedupDone,  \* cleanup_duplicate_raw has run
    pruned,     \* manifests cleanup_metadata unlinked in its last run
    pruneDone,  \* cleanup_metadata has run
    ipc,        \* position of build_symptom_index: idle, loop, end, raised, done
    index,      \* build_symptom_index's index: key -> list of entries
    disease_info, \* build_symptom_index's disease_info: code -> name
    cur,        \* the disorder record of the current iteration of line 109
    nDis,       \* disorder records read so far
    nSym,       \* associations read so far
    offered,    \* entries that reached line 123
    hpo_term,   \* hpo_term of the current iteration of line 116
    saved,      \* payload written to symptom_index.json
    qpc,        \* the SymptomIndex: "none", "loaded", or "queried"
    s2d,        \* its _symptom_to_diseases
    qsymptoms,  \* symptoms of the last query
    qall,       \* match_all of the last query
    qds,        \* ds of each term of the last query
    qresult,    \* records returned by the last query
    mono,       \* time.monotonic(), in ticks
    last_request_time, \* _last_request_time of each fetcher object
    tinst,      \* the fetcher object inside _get or _get_stream, or none
    tpc,        \* where it is: idle, limit, sent, backoff
    attempt_number, \* attempts of the current call
    raised,     \* what the last attempt raised, or "response", or "none"
    outcome,    \* what the caller of the last call got
    sentAt,     \* time of the last outbound request to each source, or -1
    pfile,      \* content of the pipeline checkpoint file
    ppc,        \* the pipeline runner: idle, or the stage script it waits for
    pcp,        \* its cp
    preset,     \* its reset
    pstart,     \* what the file was when the current or last run began
    prc,        \* return code of each stage script in the current or last run
    pexit,      \* exit status of the last run, or "none"
    pruns,      \* runs started
    task        \* state of each task of the DAG run

orchVars == << file, pc, exit, cp, reset, completed, idx, err, opened, log,
               succeeded, lastSaved >>

fetchVars == << manifests, now, attempts, last >>

storeVars == << raw, deleted, unlinked, dedupDone >>

pruneVars == << pruned, pruneDone >>

queryVars == << qpc, s2d, qsymptoms, qall, qds, qresult >>

indexVars == << ipc, index, disease_info, cur, nDis, nSym, offered, hpo_term, saved,
                queryVars >>

transportVars == << mono, last_request_time, tinst, tpc, attempt_number, raised,
                   outcome, sentAt >>

pipeVars == << pfile, ppc, pcp, preset, pstart, prc, pexit, pruns, task >>

dataVars == << fetchVars, storeVars, pruneVars, indexVars, transportVars,
               pipeVars >>

sideVars == << orchVars, transportVars, pipeVars >>

vars == << orchVars, dataVars >>

InitFetchers ==
    /\ manifests = [id \in FetchIds |-> "none"]
    /\ now = 0
    /\ attempts = 0
    /\ last = NoAttempt

InitStore ==
    /\ raw = {}
    /\ deleted = 0
    /\ unlinked = {}
    /\ dedupDone = FALSE

NoInstance == << "none", "none" >>

InitTransport ==
    /\ mono = 0
    /\ last_request_time = [i \in Instances |-> 0]
    /\ tinst = NoInstance
    /\ tpc = "idle"
    /\ attempt_number = 0
    /\ raised = "none"
    /\ outcome = "none"
    /\ sentAt = [src \in TransportSources |-> 0 - 1]

InitPipeline ==
    /\ pfile = NoPipelineFile
    /\ ppc = "idle"
    /\ pcp = pipeline_load_checkpoint(NoPipelineFile)
    /\ preset = FALSE
    /\ pstart = NoPipelineFile
    /\ prc = NotRun
    /\ pexit = "none"
    /\ pruns = 0
    /\ task = [t \in Tasks |-> "none"]

InitPrune ==
    /\ pruned = {}
    /\ pruneDone = FALSE

InitSymptomIndex ==
    /\ qpc = "none"
    /\ s2d = EmptyDict
    /\ qsymptoms = <<>>
    /\ qall = TRUE
    /\ qds = <<>>
    /\ qresult = {}

InitIndex ==
    /\ ipc = "idle"
    /\ index = EmptyDict
    /\ disease_info = EmptyDict
    /\ cur = NoDisorder
    /\ nDis = 0
    /\ nSym = 0
    /\ offered = 0
    /\ hpo_term = PyAbsent
    /\ saved = NoPayload
    /\ InitSymptomIndex

InitOrchestrator ==
    /\ file = Missing
    /\ pc = "idle"
    /\ exit = "none"
    /\ cp = DefaultCp
    /\ reset = FALSE
    /\ completed = <<>>
    /\ idx = 1
    /\ err = PyNone
    /\ opened = FALSE
    /\ log = <<>>
    /\ succeeded = {}
    /\ lastSaved = Missing

Init ==
    /\ InitFetchers
    /\ InitStore
    /\ InitPrune
    /\ InitTransport
    /\ InitPipeline
    /\ InitOrchestrator
    /\ InitIndex

\* main, lines 71-78: load the checkpoint, read it, handle --reset
StartRun(r) ==
    /\ pc = "idle"
    /\ cp' = load_checkpoint(file)
    /\ reset' = r
    /\ log' = <<>>
    /\ idx' = 1
    /\ err' = PyNone
    /\ IF MainLoadRaises(cp')
       THEN /\ pc' = "idle"
            /\ exit' = "traceback"
            /\ completed' = <<>>
            /\ UNCHANGED succeeded
       ELSE /\ pc' = IF r THEN "reset_save" ELSE "loop"
            /\ exit' = "running"
            /\ completed' = AfterReset(r, CompletedOf(cp'))
            /\ succeeded' = IF r THEN {} ELSE succeeded
    /\ UNCHANGED << file, opened, lastSaved >>
    /\ UNCHANGED dataVars

\* save_checkpoint, line 42: write_text opens the file for writing, which truncates it
SaveOpen ==
    /\ pc \in SavePcs
    /\ ~opened
    /\ opened' = TRUE
    /\ file' = Unparsable
    /\ UNCHANGED << pc, exit, cp, reset, completed, idx, err, log, succeeded, lastSaved >>
    /\ UNCHANGED dataVars

\* save_checkpoint, lines 42-44: the JSON text is written and the file closed
SaveWrite ==
    /\ pc \in SavePcs
    /\ opened
    /\ opened' = FALSE
    /\ file' = Dump(completed, err)
    /\ lastSaved' = file'
    /\ exit' = SaveExit(pc)
    /\ pc' = IF exit' = "running" THEN "loop" ELSE "idle"
    /\ UNCHANGED << cp, reset, completed, idx, err, log, succeeded >>
    /\ UNCHANGED dataVars

\* lines 82-85: the job is already in completed
LoopSkip ==
    /\ pc = "loop"
    /\ idx <= NJobs
    /\ AlreadyDone(JobAt(idx), completed)
    /\ idx' = idx + 1
    /\ UNCHANGED << file, pc, exit, cp, reset, completed, err, opened, log,
                    succeeded, lastSaved >>
    /\ UNCHANGED dataVars

\* lines 86-89: fetcher.fetch(**kwargs) is called
Invoke ==
    /\ pc = "loop"
    /\ idx <= NJobs
    /\ ~AlreadyDone(JobAt(idx), completed)
    /\ pc' = "fetching"
    /\ log' = Append(log, [key |-> JobAt(idx), result |-> "running"])
    /\ UNCHANGED << file, exit, cp, reset, completed, idx, err, opened,
                    succeeded, lastSaved >>
    /\ UNCHANGED dataVars

\* lines 89-91: fetch returned; completed.append(key), then save_checkpoint(completed, None)
FetchOk ==
    /\ pc = "fetching"
    /\ completed' = OnSuccess(completed, JobAt(idx))
    /\ err' = PyNone
    /\ log' = [log EXCEPT ![Len(log)].result = "ok"]
    /\ succeeded' = succeeded \cup {JobAt(idx)}
    /\ idx' = idx + 1
    /\ pc' = "ok_save"
    /\ UNCHANGED << file, exit, cp, reset, opened, lastSaved >>
    /\ UNCHANGED dataVars

\* lines 93-95: fetch raised; save_checkpoint(completed, err_msg), then sys.exit(1)
FetchFail(msg) ==
    /\ pc = "fetching"
    /\ completed' = FailureCompleted(completed)
    /\ err' = PyStr(msg)
    /\ log' = [log EXCEPT ![Len(log)].result = "failed"]
    /\ pc' = "fail_save"
    /\ UNCHANGED << file, exit, cp, reset, idx, opened, succeeded, lastSaved >>
    /\ UNCHANGED dataVars

\* line 100: the loop is over; save_checkpoint(completed, None), then return 0
LoopEnd ==
    /\ pc = "loop"
    /\ idx > NJobs
    /\ err' = PyNone
    /\ pc' = "final_save"
    /\ UNCHANGED << file, exit, cp, reset, completed, idx, opened, log,
                    succeeded, lastSaved >>
    /\ UNCHANGED dataVars

RunStep ==
    \/ SaveOpen
    \/ SaveWrite
    \/ LoopSkip
    \/ Invoke
    \/ LoopEnd

Next ==
    \/ \E r \in BOOLEAN : StartRun(r)
    \/ RunStep
    \/ FetchOk
    \/ \E msg \in ErrMsgs : FetchFail(msg)

Spec == Init /\ [][Next]_vars

(***************************************************************************)
(* Resuming only: every run is started without --reset.  The process makes *)
(* progress (weak fairness), and a job that is fetched again and again     *)
(* eventually stops failing (strong fairness of FetchOk).                  *)
(***************************************************************************)
NextResume ==
    \/ StartRun(FALSE)
    \/ RunStep
    \/ FetchOk
    \/ \E msg \in ErrMsgs : FetchFail(msg)

LiveSpec ==
    /\ Init
    /\ [][NextResume]_vars
    /\ WF_vars(StartRun(FALSE))
    /\ WF_vars(RunStep)
    /\ SF_vars(FetchOk)

(***************************************************************************)
(* Process termination: the operating system may end the process at any    *)
(* point of a run, also between write_text's truncation and its write.     *)
(***************************************************************************)
Kill ==
    /\ pc # "idle"
    /\ pc' = "idle"
    /\ exit' = "killed"
    /\ opened' = FALSE
    /\ UNCHANGED << file, cp, reset, completed, idx, err, log, succeeded, lastSaved >>
    /\ UNCHANGED dataVars

NextCrash ==
    \/ Next
    \/ Kill

SpecCrash == Init /\ [][NextCrash]_vars

(***************************************************************************)
(* Any content of the checkpoint file at the start: the file is an input   *)
(* of load_checkpoint.                                                     *)
(***************************************************************************)
MaxLen == 2

SampleKeys == {"orphanet", "pubmed", "zzz"}

RECURSIVE ListsUpTo(_)
ListsUpTo(n) ==
    IF n = 0 THEN {<<>>}
    ELSE LET shorter == ListsUpTo(n - 1)
         IN shorter \cup {Append(q, k) : q \in {x \in shorter : Len(x) = n - 1}, k \in SampleKeys}

CompletedMembers ==
    {PyAbsent, PyNone, PyNum("5"), PyText} \cup {PyList(q) : q \in ListsUpTo(MaxLen)}

LastErrorMembers ==
    {PyAbsent, PyNone, PyStr(""), PyStr("HTTPError: 503"), PyNum("0"), PyNum("5")}

FileContents ==
    {Missing, Unparsable, JsonOther}
        \cup {JsonObject(c, e) : c \in CompletedMembers, e \in LastErrorMembers}

\* the {completed: list, last_error: string|null} shape
WellShaped(f) ==
    /\ f.kind = "object"
    /\ f.completed.t = "list"
    /\ f.last_error.t \in {"null", "str"}

InitLoad ==
    /\ InitFetchers
    /\ InitStore
    /\ InitPrune
    /\ InitTransport
    /\ InitPipeline
    /\ file \in FileContents
    /\ pc = "idle"
    /\ exit = "none"
    /\ cp = DefaultCp
    /\ reset = FALSE
    /\ completed = <<>>
    /\ idx = 1
    /\ err = PyNone
    /\ opened = FALSE
    /\ log = <<>>
    /\ succeeded = {}
    /\ lastSaved = file
    /\ InitIndex

SpecLoad == InitLoad /\ [][Next]_vars

(***************************************************************************)
(* Fetch attempts on their own: any fetcher, any behaviour of its remote   *)
(* service, at any clock second.                                           *)
(***************************************************************************)
\* one call of fetcher.fetch, from generate_fetch_id to its return or raise
FetchAttempt(f, sc) ==
    /\ attempts < MaxAttempts
    /\ attempts' = attempts + 1
    /\ LET id == gen_fetch_id(f, now)
           r == Fetch(f, sc)
       IN /\ manifests' = IF r.manifest = "none" THEN manifests
                          ELSE save_manifest(manifests, id, r.manifest)
          /\ last' = [fetcher |-> f, id |-> id, raised |-> r.raised]
          /\ IF r.manifest = "success"
             THEN \E d \in ArtifactDirs(f) : \E n \in RecordCounts(sc) :
                     raw' = WriteFile(raw, Artifact(f, d, id, n, now))
             ELSE raw' = raw
    /\ UNCHANGED now
    /\ UNCHANGED << deleted, unlinked, dedupDone >>
    /\ UNCHANGED pruneVars
    /\ UNCHANGED indexVars
    /\ UNCHANGED sideVars

\* a second passes
Tick ==
    /\ now < MaxTime
    /\ now' = now + 1
    /\ UNCHANGED << manifests, attempts, last >>
    /\ UNCHANGED storeVars
    /\ UNCHANGED pruneVars
    /\ UNCHANGED indexVars
    /\ UNCHANGED sideVars

NextFetch ==
    \/ \E f \in Fetchers : \E sc \in Scenarios(f) : FetchAttempt(f, sc)
    \/ Tick

SpecFetch == Init /\ [][NextFetch]_vars

(***************************************************************************)
(* cleanup_duplicate_raw.py, run over every content a directory of raw can *)
(* hold.                                                                   *)
(***************************************************************************)

\* main of cleanup_duplicate_raw.py
Dedup ==
    /\ \E keep \in SUBSET raw :
          /\ \A f \in raw : f.dir \notin Dirs => f \in keep
          /\ \A d \in Dirs : FilesIn(keep, d) \in Survivors(FilesIn(raw, d), d[1])
          /\ raw' = keep
          /\ unlinked' = unlinked \cup (raw \ keep)
          /\ deleted' = Cardinality(raw \ keep)
    /\ dedupDone' = TRUE
    /\ UNCHANGED fetchVars
    /\ UNCHANGED pruneVars
    /\ UNCHANGED indexVars
    /\ UNCHANGED sideVars

MaxMtime == 2

FileNames == {"a", "b", "c"}

\* file contents of a directory of this source: what its fetcher writes (a
\* list of records under WriterField), and contents that are cut off, lack
\* the records member, or hold another value under it
DedupBodies(source, t) ==
    LET h == Header(gen_fetch_id(source, t))
    IN {UnparsableBody, ObjectBody(h, "none", JNull, 0),
        ObjectBody(h, AccessorField(source), JNull, 0)}
       \cup {ObjectBody(h, fld, JList(n), 0) :
                fld \in {WriterField(source), AccessorField(source)},
                n \in 0..MaxCount}
       \cup (IF source = "orphanet"
             THEN {ObjectBody(h, "HPODisorderSetStatus", JDict(1), 0)} ELSE {})
       \cup (IF source = "rxnorm"
             THEN {ObjectBody(h, "drugs", JList(0), 1)} ELSE {})

DedupContents(source) ==
    UNION {{[mtime |-> t, body |-> b] : b \in DedupBodies(source, t)} :
           t \in 1..MaxMtime}

\* a directory d holding the files named in N with the contents c
DedupStore(d, N, c) ==
    {[dir |-> d, name |-> n, mtime |-> c[n].mtime, body |-> c[n].body] : n \in N}

InitDedup ==
    /\ InitFetchers
    /\ InitOrchestrator
    /\ \E d \in Dirs : \E N \in SUBSET FileNames :
          \E c \in [N -> DedupContents(d[1])] : raw = DedupStore(d, N, c)
    /\ deleted = 0
    /\ unlinked = {}
    /\ dedupDone = FALSE
    /\ InitPrune
    /\ InitTransport
    /\ InitPipeline
    /\ InitIndex

SpecDedup == InitDedup /\ [][Dedup]_vars

(***************************************************************************)
(* cleanup_metadata.py, run over sets of artifacts and manifests, and the  *)
(* fetchers, the Deduplicator and the pruner working on one data directory.*)
(***************************************************************************)

\* main of cleanup_metadata.py.  The manifest <fetch_id>_manifest.json is the
\* entry fetch_id of manifests: stem.replace("_manifest", "") gives the
\* fetch_id back, as no source name contains "_manifest".
Prune ==
    /\ LET kept_ids == KeptIds(raw)
           orphans == {id \in FetchIds : manifests[id] # "none" /\ id \notin kept_ids}
       IN /\ manifests' = [id \in FetchIds |->
                              IF id \in orphans THEN "none" ELSE manifests[id]]
          /\ pruned' = orphans
    /\ pruneDone' = TRUE
    /\ UNCHANGED << now, attempts, last >>
    /\ UNCHANGED storeVars
    /\ UNCHANGED indexVars
    /\ UNCHANGED sideVars

\* sample fetch ids and the files that can carry them
PruneIds ==
    {gen_fetch_id("orphanet", 0), gen_fetch_id("orphanet", 1), gen_fetch_id("who", 0)}

PruneBodies ==
    {UnparsableBody, OtherBody, ObjectBody(NoHeader, "none", JNull, 0)}
    \cup {ObjectBody(Header(id), "none", JNull, 0) : id \in PruneIds}

\* the files named in N with the contents c; <fetch_id>.json lies in the
\* directory of its source
PruneStore(N, c) ==
    {[dir |-> CHOOSE d \in ArtifactDirs(n[1]) : TRUE, name |-> n, mtime |-> n[2],
      body |-> c[n]] : n \in N}

InitPruner ==
    /\ InitOrchestrator
    /\ deleted = 0
    /\ unlinked = {}
    /\ dedupDone = FALSE
    /\ InitPrune
    /\ InitTransport
    /\ InitPipeline
    /\ now = 0
    /\ attempts = 0
    /\ last = NoAttempt
    /\ \E st \in [PruneIds -> {"none", "success", "failure"}] :
          manifests = [id \in FetchIds |-> IF id \in PruneIds THEN st[id] ELSE "none"]
    /\ \E N \in SUBSET PruneIds : \E c \in [N -> PruneBodies] :
          raw = PruneStore(N, c)
    /\ InitIndex

SpecPrune == InitPruner /\ [][Prune]_vars

NextStore == NextFetch \/ Dedup \/ Prune

SpecStore == Init /\ [][NextStore]_vars

(***************************************************************************)
(* build_symptom_index, reading a dataset record by record.                *)
(***************************************************************************)

TopKinds == {"list", "missing", "null"}

\* lines 101-108: the dataset is read and _extract_disorders gives a list of
\* records, nothing (a member is missing or of another type), or None
BuildStart(top) ==
    /\ ipc = "idle"
    /\ ipc' = CASE top = "list" -> "loop"
                [] top = "missing" -> "end"
                [] top = "null" -> "raised"
    /\ index' = EmptyDict
    /\ disease_info' = EmptyDict
    /\ UNCHANGED << cur, nDis, nSym, offered, hpo_term, saved, queryVars >>
    /\ UNCHANGED << fetchVars, storeVars, pruneVars >>
    /\ UNCHANGED sideVars

CodeInputs == {PyAbsent, PyStr("1"), PyStr("2"), PyNum("1"), PyNum("0")}

NameInputs == {PyStr(""), PyStr("A")}

DisorderInputs ==
    {DisorderRecord("nodict", PyAbsent, PyAbsent, FALSE),
     DisorderRecord("noobj", PyAbsent, PyAbsent, FALSE),
     DisorderRecord("badobj", PyAbsent, PyAbsent, FALSE)}
    \cup {DisorderRecord("obj", c, n, a) :
             c \in CodeInputs, n \in NameInputs, a \in BOOLEAN}

\* lines 109-114: the next record of the list
Disorder(d) ==
    /\ ipc = "loop"
    /\ nDis < MaxDisorders
    /\ nDis' = nDis + 1
    /\ cur' = d
    /\ IF d.kind = "badobj"
       THEN /\ ipc' = "raised"
            /\ UNCHANGED disease_info
       ELSE /\ ipc' = "loop"
            /\ disease_info' =
                  IF ExtractDisease(d) = NoDisease THEN disease_info
                  ELSE DictPut(disease_info, ExtractDisease(d).code,
                               ExtractDisease(d).name)
    /\ UNCHANGED << index, nSym, offered, hpo_term, saved, queryVars >>
    /\ UNCHANGED << fetchVars, storeVars, pruneVars >>
    /\ UNCHANGED sideVars

TermInputs ==
    {PyAbsent, PyNum("5"), Chars(<<>>), Chars(<< " " >>), Chars(<< "f" >>),
     Chars(<< " ", "F", "\t" >>), Chars(<< "f", " ", "g" >>),
     Chars(<< "F", "\t", " ", "G" >>)}

AssociationInputs ==
    {Association(FALSE, PyAbsent, PyStr(""), PyStr(""))}
    \cup {Association(TRUE, t, f, PyStr("HP:1")) :
             t \in TermInputs, f \in {PyStr(""), PyStr("often")}}

\* lines 59-66 and 116-124: the next association of the current record
Symptom(a) ==
    /\ ipc = "loop"
    /\ nDis > 0
    /\ nSym < MaxSymptoms
    /\ nSym' = nSym + 1
    /\ LET symptoms == ExtractSymptoms(cur, a)
       IN IF symptoms = <<>>
          THEN UNCHANGED << ipc, index, offered, hpo_term >>
          ELSE LET norm == _normalize_symptom(symptoms[1].term)
                   entry == << ExtractDisease(cur).code, ExtractDisease(cur).name,
                               symptoms[1].freq, symptoms[1].id >>
               IN /\ hpo_term' = symptoms[1].term
                  /\ IF ~norm.ok
                     THEN /\ ipc' = "raised"
                          /\ UNCHANGED << index, offered >>
                     ELSE IF norm.v = <<>>
                     THEN UNCHANGED << ipc, index, offered >>
                     ELSE /\ index' = Insert(index, norm.v, entry)
                          /\ offered' = offered + 1
                          /\ UNCHANGED ipc
    /\ UNCHANGED << disease_info, cur, nDis, saved, queryVars >>
    /\ UNCHANGED << fetchVars, storeVars, pruneVars >>
    /\ UNCHANGED sideVars

\* lines 126-137: the list is exhausted, the payload is written and a
\* SymptomIndex is made of the file
Persist ==
    /\ ipc \in {"loop", "end"}
    /\ ipc' = "done"
    /\ saved' = Payload(index, disease_info)
    /\ qpc' = "loaded"
    /\ s2d' = _load(IndexFile(saved'))
    /\ UNCHANGED << qsymptoms, qall, qds, qresult >>
    /\ UNCHANGED << index, disease_info, cur, nDis, nSym, offered, hpo_term >>
    /\ UNCHANGED << fetchVars, storeVars, pruneVars >>
    /\ UNCHANGED sideVars

NextIndex ==
    \/ \E top \in TopKinds : BuildStart(top)
    \/ \E d \in DisorderInputs : Disorder(d)
    \/ \E a \in AssociationInputs : Symptom(a)
    \/ Persist

SpecIndex == Init /\ [][NextIndex]_vars

(***************************************************************************)
(* Symptom queries on an index file that an earlier build has written.     *)
(***************************************************************************)

MaxEntries == 2

MaxTerms == 2

IndexKeys == {<< "f" >>, << "g" >>, << "f", " ", "g" >>}

IndexEntries ==
    {<< "1", PyStr("A"), PyStr(""), PyStr("HP:1") >>,
     << "1", PyStr("A"), PyStr(""), PyStr("HP:2") >>,
     << "1", PyStr("A"), PyStr("often"), PyStr("HP:1") >>,
     << "2", PyStr("B"), PyStr(""), PyStr("HP:1") >>}

\* the indexes lines 116-124 make of at most n entries
RECURSIVE BuiltIndexes(_)
BuiltIndexes(n) ==
    IF n = 0 THEN {EmptyDict}
    ELSE BuiltIndexes(n - 1)
         \cup {Insert(ix, k, e) :
                  ix \in BuiltIndexes(n - 1), k \in IndexKeys, e \in IndexEntries}

\* line 114 for the diseases of an index
InfoOf(ix) ==
    [c \in {e[1] : e \in UNION {Range(ix[k]) : k \in DOMAIN ix}} |-> c]

InitQuery ==
    /\ InitOrchestrator
    /\ InitFetchers
    /\ InitStore
    /\ InitPrune
    /\ InitTransport
    /\ InitPipeline
    /\ ipc = "idle"
    /\ index = EmptyDict
    /\ disease_info = EmptyDict
    /\ cur = NoDisorder
    /\ nDis = 0
    /\ nSym = 0
    /\ offered = 0
    /\ hpo_term = PyAbsent
    /\ \/ saved = NoPayload
       \/ \E ix \in BuiltIndexes(MaxEntries) : saved = Payload(ix, InfoOf(ix))
    /\ InitSymptomIndex

\* SymptomIndex.__init__, lines 143-148
Load ==
    /\ qpc = "none"
    /\ qpc' = "loaded"
    /\ s2d' = _load(IndexFile(saved))
    /\ UNCHANGED << qsymptoms, qall, qds, qresult >>
    /\ UNCHANGED << ipc, index, disease_info, cur, nDis, nSym, offered, hpo_term,
                    saved >>
    /\ UNCHANGED << fetchVars, storeVars, pruneVars >>
    /\ UNCHANGED sideVars

QueryTerms ==
    {Chars(<< "f" >>), Chars(<< "g" >>), Chars(<< "F", " ", "\t", "G" >>),
     Chars(<< " " >>)}

QueryInputs ==
    UNION {[1..n -> QueryTerms] : n \in 0..MaxTerms}

\* SymptomIndex.query(symptoms, match_all), the one query of a run of
\* query_symptoms.py
Query(symptoms, match_all) ==
    /\ qpc = "loaded"
    /\ qpc' = "queried"
    /\ qsymptoms' = symptoms
    /\ qall' = match_all
    /\ qds' = PerTerm(s2d, symptoms)
    /\ qresult' = query(s2d, symptoms, match_all)
    /\ UNCHANGED s2d
    /\ UNCHANGED << ipc, index, disease_info, cur, nDis, nSym, offered, hpo_term,
                    saved >>
    /\ UNCHANGED << fetchVars, storeVars, pruneVars >>
    /\ UNCHANGED sideVars

NextQuery ==
    \/ Load
    \/ \E symptoms \in QueryInputs : \E match_all \in BOOLEAN :
          Query(symptoms, match_all)

SpecQuery == InitQuery /\ [][NextQuery]_vars

(***************************************************************************)
(* BaseFetcher._get and _get_stream: the requests of one orchestrator run. *)
(***************************************************************************)

MaxClock == 6

\* a fetcher calls self._get(...) or self._get_stream(...)
Call(i) ==
    /\ tpc = "idle"
    /\ tinst' = i
    /\ tpc' = "limit"
    /\ attempt_number' = 1
    /\ raised' = "none"
    /\ outcome' = "none"
    /\ UNCHANGED << mono, last_request_time, sentAt >>
    /\ UNCHANGED << fetchVars, storeVars, pruneVars, indexVars, pipeVars >>
    /\ UNCHANGED orchVars

\* lines 46-51 and 60-61: _rate_limit sleeps when less than the delay has
\* elapsed since this object's last request, stamps the time, and
\* requests.get sends the request
Send ==
    /\ tpc = "limit"
    /\ LET delay == _rate_limit_delay(tinst[2])
           elapsed == mono - last_request_time[tinst]
       IN IF elapsed < delay
          THEN \E slept \in {delay - elapsed, delay - elapsed + 1} :
                  mono' = mono + slept
          ELSE mono' = mono
    /\ mono' <= MaxClock
    /\ last_request_time' = [last_request_time EXCEPT ![tinst] = mono']
    /\ sentAt' = [sentAt EXCEPT ![tinst[2]] = mono']
    /\ tpc' = "sent"
    /\ UNCHANGED << tinst, attempt_number, raised, outcome >>
    /\ UNCHANGED << fetchVars, storeVars, pruneVars, indexVars, pipeVars >>
    /\ UNCHANGED orchVars

\* requests.get returns or raises, and tenacity decides: return the
\* response, raise the exception again although no retry applies to it, wait
\* for another attempt, or give up with RetryError
Receive(e) ==
    /\ tpc = "sent"
    /\ raised' = e
    /\ IF e = "response"
       THEN tpc' = "idle" /\ outcome' = "response"
       ELSE IF ~IsRetried(e)
       THEN tpc' = "idle" /\ outcome' = e
       ELSE IF attempt_number >= StopAfterAttempt
       THEN tpc' = "idle" /\ outcome' = "RetryError"
       ELSE tpc' = "backoff" /\ outcome' = "none"
    /\ UNCHANGED << mono, last_request_time, tinst, attempt_number, sentAt >>
    /\ UNCHANGED << fetchVars, storeVars, pruneVars, indexVars, pipeVars >>
    /\ UNCHANGED orchVars

\* tenacity sleeps and calls the function again
Backoff(w) ==
    /\ tpc = "backoff"
    /\ mono + w <= MaxClock
    /\ mono' = mono + w
    /\ attempt_number' = attempt_number + 1
    /\ tpc' = "limit"
    /\ UNCHANGED << last_request_time, tinst, raised, outcome, sentAt >>
    /\ UNCHANGED << fetchVars, storeVars, pruneVars, indexVars, pipeVars >>
    /\ UNCHANGED orchVars

\* time passes between two calls
Elapse ==
    /\ tpc = "idle"
    /\ mono < MaxClock
    /\ mono' = mono + 1
    /\ UNCHANGED << last_request_time, tinst, tpc, attempt_number, raised,
                    outcome, sentAt >>
    /\ UNCHANGED << fetchVars, storeVars, pruneVars, indexVars, pipeVars >>
    /\ UNCHANGED orchVars

NextTransport ==
    \/ \E i \in Instances : Call(i)
    \/ Send
    \/ \E e \in Outcomes : Receive(e)
    \/ \E w \in BackoffWaits : Backoff(w)
    \/ Elapse

SpecTransport == Init /\ [][NextTransport]_vars

(***************************************************************************)
(* run_pipeline_with_checkpoint.main, run after run, and one run of the    *)
(* DAG.                                                                    *)
(***************************************************************************)

MaxPipelineRuns == 3

notPipeVars == << orchVars, fetchVars, storeVars, pruneVars, indexVars,
                  transportVars >>

\* lines 64-77 from the state cp: the position after step 1, the file and
\* the exit status
GoStep2(state) ==
    /\ ppc' = IF Step2(state) = "build" THEN "build" ELSE "idle"
    /\ pexit' = IF Step2(state) = "build" THEN "running" ELSE "0"

\* lines 40-61: a run begins; it ends at once, or a stage script is started
PipelineStart(r) ==
    /\ ppc = "idle"
    /\ pruns < MaxPipelineRuns
    /\ pruns' = pruns + 1
    /\ preset' = r
    /\ pstart' = pfile
    /\ prc' = NotRun
    /\ LET state == IF r THEN [fetch |-> FALSE, symptom_index |-> FALSE]
                    ELSE pipeline_load_checkpoint(pfile)
       IN /\ pcp' = state
          /\ pfile' = IF r THEN pipeline_save_checkpoint(state) ELSE pfile
          /\ IF AfterLoad(state) = "fetch"
             THEN ppc' = "fetch" /\ pexit' = "running"
             ELSE GoStep2(state)
    /\ UNCHANGED task
    /\ UNCHANGED notPipeVars

\* lines 50-59: scripts/fetch_all_checkpointed.py has ended
FetchScriptExit(returncode) ==
    /\ ppc = "fetch"
    /\ prc' = [prc EXCEPT !["fetch"] = returncode]
    /\ IF AfterFetch(returncode) = "cleanup"
       THEN ppc' = "cleanup" /\ pexit' = pexit
       ELSE ppc' = "idle" /\ pexit' = "1"
    /\ UNCHANGED << pfile, pcp, preset, pstart, pruns, task >>
    /\ UNCHANGED notPipeVars

\* lines 54-56 and 64-77: scripts/cleanup_duplicate_raw.py has ended
CleanupScriptExit(returncode) ==
    /\ ppc = "cleanup"
    /\ prc' = [prc EXCEPT !["cleanup"] = returncode]
    /\ pcp' = [pcp EXCEPT !.fetch = TRUE]
    /\ pfile' = pipeline_save_checkpoint(pcp')
    /\ GoStep2(pcp')
    /\ UNCHANGED << preset, pstart, pruns, task >>
    /\ UNCHANGED notPipeVars

\* lines 65-77: scripts/build_symptom_index.py has ended
BuildScriptExit(returncode) ==
    /\ ppc = "build"
    /\ prc' = [prc EXCEPT !["build"] = returncode]
    /\ ppc' = "idle"
    /\ IF returncode = "0"
       THEN /\ pcp' = [pcp EXCEPT !.symptom_index = TRUE]
            /\ pfile' = pipeline_save_checkpoint(pcp')
            /\ pexit' = "0"
       ELSE /\ UNCHANGED << pcp, pfile >>
            /\ pexit' = "1"
    /\ UNCHANGED << preset, pstart, pruns, task >>
    /\ UNCHANGED notPipeVars

\* the scheduler starts a task all of whose upstream tasks have succeeded
TaskStart(t) ==
    /\ task[t] = "none"
    /\ \A u \in Upstream(t) : task[u] = "success"
    /\ task' = [task EXCEPT ![t] = "running"]
    /\ UNCHANGED << pfile, ppc, pcp, preset, pstart, prc, pexit, pruns >>
    /\ UNCHANGED notPipeVars

\* the task's bash command has ended; retries is 0
TaskExit(t, returncode) ==
    /\ task[t] = "running"
    /\ task' = [task EXCEPT ![t] = IF returncode = "0" THEN "success" ELSE "failed"]
    /\ UNCHANGED << pfile, ppc, pcp, preset, pstart, prc, pexit, pruns >>
    /\ UNCHANGED notPipeVars

\* a task below a failed task is not run
TaskUpstreamFailed(t) ==
    /\ task[t] = "none"
    /\ \E u \in Upstream(t) : task[u] \in {"failed", "upstream_failed"}
    /\ task' = [task EXCEPT ![t] = "upstream_failed"]
    /\ UNCHANGED << pfile, ppc, pcp, preset, pstart, prc, pexit, pruns >>
    /\ UNCHANGED notPipeVars

\* r.returncode, as text
ReturnCodes == {"0", "1"}

NextPipeline ==
    \/ \E r \in BOOLEAN : PipelineStart(r)
    \/ \E returncode \in ReturnCodes : FetchScriptExit(returncode)
    \/ \E returncode \in ReturnCodes : CleanupScriptExit(returncode)
    \/ \E returncode \in ReturnCodes : BuildScriptExit(returncode)
    \/ \E t \in Tasks : TaskStart(t)
    \/ \E t \in Tasks : \E returncode \in ReturnCodes : TaskExit(t, returncode)
    \/ \E t \in Tasks : TaskUpstreamFailed(t)

SpecPipeline == Init /\ [][NextPipeline]_vars

(***************************************************************************)
(* Notions shared by the orchestrator's properties                         *)
(***************************************************************************)
\* main's completed when the for loop of the current run began
RunStartCompleted == AfterReset(reset, CompletedOf(cp))

\* a run has ended by itself (return or sys.exit), not by being killed
RunEnded == pc = "idle" /\ exit \in {"ok", "fail", "traceback"}

\* the checkpoint file holds every job key
FileComplete == file.kind = "object" /\ JobKeys \subseteq Range(file.completed.l)

\* position of a key in CONFIG
PosOf(key) == CHOOSE i \in 1..NJobs : CONFIG[i] = key

\* the keys whose fetch returned in this run before the i-th invocation
OkBefore(i) == {log[m].key : m \in {n \in 1..(i - 1) : log[n].result = "ok"}}

\* C1: a run without --reset on a checkpoint whose completed holds every job key
\* and whose last_error is null invokes no fetch at all.
C1_IdempotentResume ==
    ( /\ exit # "none"
      /\ ~reset
      /\ JobKeys \subseteq Range(CompletedOf(cp))
      /\ DictGet(cp.last_error, PyNone) = PyNone )
        => log = <<>>

C1_Witness ==
    /\ RunEnded
    /\ exit = "ok"
    /\ ~reset
    /\ JobKeys \subseteq Range(CompletedOf(cp))
    /\ DictGet(cp.last_error, PyNone) = PyNone
    /\ log = <<>>

\* C2: when every job eventually stops failing, repeated runs without --reset
\* eventually leave a checkpoint with completed = all jobs and last_error null.
C2_ResumeConverges ==
    <>( /\ file.kind = "object"
        /\ Range(file.completed.l) = JobKeys
        /\ file.last_error = PyNone )

C2_Witness ==
    /\ RunEnded
    /\ exit = "ok"
    /\ cp.last_error.t = "str"
    /\ Range(file.completed.l) = JobKeys
    /\ file.last_error = PyNone

\* C3: a fetch is never invoked for a job whose fetch has already returned
\* successfully (since the last --reset); only failed or untried jobs are invoked.
C3_AtMostOnceAfterSuccess ==
    [][(pc # "fetching" /\ pc' = "fetching") => JobAt(idx') \notin succeeded]_vars

C3_Witness ==
    /\ pc = "fetching"
    /\ ~reset
    /\ cp.last_error.t = "str"
    /\ succeeded # {}
    /\ JobAt(idx) \notin succeeded

\* C4: a failed fetch is the last fetch of its run, and the run then persists a
\* checkpoint with a non-null last_error and exactly the completed set from
\* before the failed job.
C4_HaltOnFirstFailure ==
    /\ \A i \in 1..Len(log) :
          log[i].result = "failed" => (i = Len(log) /\ pc \in {"fail_save", "idle"})
    /\ (pc = "idle" /\ exit = "fail") =>
          /\ log # <<>>
          /\ log[Len(log)].result = "failed"
          /\ file.kind = "object"
          /\ file.last_error.t = "str"
          /\ file.last_error.s # ""
          /\ Range(file.completed.l) = Range(RunStartCompleted) \cup OkBefore(Len(log))
          /\ log[Len(log)].key \notin Range(file.completed.l)

C4_Witness ==
    /\ pc = "idle"
    /\ exit = "fail"
    /\ Len(log) >= 2
    /\ RunStartCompleted # <<>>
    /\ idx < NJobs

\* C5: jobs are taken in CONFIG order, one fetch at a time: when the fetch of a job
\* is invoked, every job before it in CONFIG was completed at the start of the run
\* or its fetch has returned successfully earlier in this run.
C5_SerialFixedOrder ==
    /\ \A i \in 1..Len(log) : log[i].result = "running" => (i = Len(log) /\ pc = "fetching")
    /\ \A i \in 1..Len(log) : \A j \in 1..Len(log) :
          i < j => PosOf(log[i].key) < PosOf(log[j].key)
    /\ \A i \in 1..Len(log) : \A k \in 1..(PosOf(log[i].key) - 1) :
          CONFIG[k] \in Range(RunStartCompleted) \cup OkBefore(i)

C5_Witness ==
    /\ pc = "fetching"
    /\ Len(log) >= 3
    /\ RunStartCompleted # <<>>

\* C6: save replaces the checkpoint as a whole: whenever the process has stopped,
\* also when it was terminated inside a save, the checkpoint file holds the last
\* state a save finished writing (it reads back with that completed list), never
\* a partial one; so a restarted run never
\* fetches a job of the last successfully persisted completed set.
C6_CrashSafeCheckpoint ==
    /\ pc = "idle" =>
          CompletedOf(load_checkpoint(file)) = CompletedOf(load_checkpoint(lastSaved))
    /\ (pc = "fetching" /\ ~reset) => JobAt(idx) \notin Range(CompletedOf(lastSaved))

\* C7: whatever the checkpoint file holds that is not of the
\* {completed: list, last_error} shape, a starting run loads the empty checkpoint
\* and does not raise.
C7_TolerantLoad ==
    [][(pc = "idle" /\ ~WellShaped(file))
          => (cp' = DefaultCp /\ exit' # "traceback")]_vars

C9_ExitStatus ==
    RunEnded =>
        /\ ExitCode(exit) \in {0, 1}
        /\ ExitCode(exit) = 0 <=> FileComplete
        /\ ExitCode(exit) = 1 <=> (log # <<>> /\ log[Len(log)].result = "failed")

C9_Witness ==
    /\ RunEnded
    /\ ~reset
    /\ ExitCode(exit) = 0
    /\ log # <<>>
    /\ Len(log) < NJobs

\* C10: after every fetch attempt a manifest for the attempt's fetch_id is
\* persisted: status success when fetch returned, failure when it raised.
C10_ManifestPerAttempt ==
    last.fetcher # "none" =>
        manifests[last.id] = IF last.raised THEN "failure" ELSE "success"

\* C11: a manifest, once written, is never overwritten or changed by a
\* later fetch attempt, also not by a second attempt on the same source name
\* within the same clock second.
C11_ManifestWrittenOnce ==
    [][\A id \in FetchIds :
          manifests[id] # "none" => manifests'[id] = manifests[id]]_vars

\* every candidate the directory d has held: present or unlinked
Candidates(d) == FilesIn(raw \cup unlinked, d)

\* C12: after a run of the Deduplicator every configured directory that held
\* at least one candidate holds exactly one, and it is one of the candidates
\* that were there before the run.
C12_OneSurvivor ==
    [][\A d \in Dirs :
          FilesIn(raw, d) # {} =>
              /\ Cardinality(FilesIn(raw', d)) = 1
              /\ FilesIn(raw', d) \subseteq FilesIn(raw, d)]_vars

C12_Witness ==
    /\ dedupDone
    /\ deleted = 2
    /\ Cardinality(raw) = 1

\* a file as its source's fetcher writes it: a list of records under the
\* fetcher's member
WellFormed(f) ==
    /\ f.body.kind = "object"
    /\ f.body.field = WriterField(f.dir[1])
    /\ f.body.val.t = "list"
    /\ f.body.alt = 0

Records(f) == f.body.val.n

\* C13: in a directory with more than one candidate the kept file has the
\* most records, and among the files with that many records the newest
\* modification time.
C13_MostRecordsThenNewest ==
    dedupDone =>
        \A d \in Dirs :
            (/\ Cardinality(Candidates(d)) > 1
             /\ \A f \in Candidates(d) : WellFormed(f))
            => \A k \in FilesIn(raw, d) : \A g \in Candidates(d) :
                   \/ Records(k) > Records(g)
                   \/ Records(k) = Records(g) /\ k.mtime >= g.mtime

\* C14: the Deduplicator deletes nothing from a directory with zero or one
\* candidate, and a run that follows a run deletes nothing.
C14_DedupIdempotent ==
    [][/\ \A d \in Dirs :
             Cardinality(FilesIn(raw, d)) <= 1 => FilesIn(raw', d) = FilesIn(raw, d)
       /\ dedupDone => (raw' = raw /\ deleted' = 0)]_vars

C14_Witness ==
    /\ dedupDone
    /\ unlinked # {}
    /\ deleted = 0

FailsToParse(f) == f.body.kind = "unparsable"

\* the file parses and has none of the members the accessor of its source reads
NoField(f) ==
    /\ f.body.kind = "object"
    /\ f.body.field # AccessorField(f.dir[1])
    /\ f.body.alt = 0

\* C15: a candidate that fails to parse and a candidate whose accessor finds
\* no field both have the worst score: no candidate of the directory is
\* ranked below either of them.
C15_WorstRank ==
    dedupDone =>
        \A d \in Dirs : \A f \in Candidates(d) : \A g \in Candidates(d) :
            (FailsToParse(f) \/ NoField(f))
            => record_count(g, d[1]) >= record_count(f, d[1])

\* C15, amended: a candidate that fails to parse scores -1 and no candidate is
\* ranked below it; a candidate whose accessor finds no field scores 0, as one
\* with an empty list does, and so outranks it: a candidate that fails to
\* parse is kept only when every candidate of its directory scores -1.
C15_Amended ==
    dedupDone =>
        \A d \in Dirs : \A f \in Candidates(d) :
            /\ FailsToParse(f) =>
                  /\ record_count(f, d[1]) = 0 - 1
                  /\ \A g \in Candidates(d) :
                        record_count(g, d[1]) >= record_count(f, d[1])
            /\ NoField(f) => record_count(f, d[1]) = 0
            /\ (FailsToParse(f) /\ f \in raw) =>
                  \A g \in Candidates(d) : record_count(g, d[1]) = 0 - 1

C15_Witness ==
    /\ dedupDone
    /\ \E f \in unlinked : \E g \in raw :
          /\ f.dir = g.dir
          /\ FailsToParse(f)
          /\ NoField(g)
          /\ f.mtime > g.mtime

\* the fetch ids in the headers of the artifacts of a store
HeaderIds(store) == {f.body.hdr.id : f \in {g \in store : g.body.hdr.t = "ok"}}

\* C17: the ManifestPruner never deletes a manifest whose fetch id is the
\* fetch_id in the header of an artifact that is present when it runs.
C17_PrunerKeepsRetained ==
    pruneDone =>
        \A id \in pruned : id \notin HeaderIds(raw)

C17_Witness ==
    /\ pruneDone
    /\ pruned # {}
    /\ \E id \in HeaderIds(raw) : manifests[id] # "none"
    /\ \E f \in raw : f.body.kind = "unparsable"

\* C18: after the ManifestPruner has run, the fetch id of every remaining
\* manifest occurs in the header of a parsable artifact; every other manifest
\* is deleted, every failure manifest among them.
C18_PrunerComplete ==
    [][Prune =>
          \A id \in FetchIds :
              manifests'[id] # "none" =>
                  /\ id \in HeaderIds(raw')
                  /\ manifests'[id] # "failure"]_vars

\* C16: a malformed record (a disorder, association, code, name or term of
\* the wrong type) never makes the index build raise: it is skipped and the
\* build goes on.
C16_NeverAborts == ~(ipc = "raised" /\ nDis > 0)

\* the record has a "Disorder" object without a code or without a name
Lacks(d) == d.kind = "obj" /\ (~IsTrue(d.code) \/ ~IsTrue(d.name))

\* total number of entries in the buckets of an index
RECURSIVE Entries(_)
Entries(ix) ==
    IF DOMAIN ix = {} THEN 0
    ELSE LET k == CHOOSE x \in DOMAIN ix : TRUE
         IN Len(ix[k]) + Entries([x \in DOMAIN ix \ {k} |-> ix[x]])

\* C19: a disorder record lacking code or name contributes no entry to the
\* index and is not counted in disease_count.
C19_IncompleteDisorderSkipped ==
    [][/\ (nDis' # nDis /\ Lacks(cur')) =>
              (index' = index /\ disease_info' = disease_info)
       /\ (nSym' # nSym /\ Lacks(cur)) =>
              (index' = index /\ disease_info' = disease_info)
       /\ (ipc' = "done" /\ ipc # "done") =>
              /\ saved'.symptom_to_diseases = index
              /\ saved'.disease_count = Cardinality(DOMAIN disease_info)]_vars

C19_Witness ==
    /\ ipc = "done"
    /\ Lacks(cur)
    /\ nDis = 2
    /\ nSym > 0
    /\ saved.disease_count = 1
    /\ Entries(saved.symptom_to_diseases) > 0

\* C20: no bucket of the index holds two equal (code, name, frequency,
\* term id) tuples, during the build and in the persisted payload.
C20_BucketsDistinct ==
    \A ix \in {index, saved.symptom_to_diseases} : \A k \in DOMAIN ix :
        \A i \in 1..Len(ix[k]) : \A j \in 1..Len(ix[k]) :
            i # j => ix[k][i] # ix[k][j]

C20_Witness ==
    /\ ipc = "done"
    /\ offered > Entries(saved.symptom_to_diseases)
    /\ \E k \in DOMAIN saved.symptom_to_diseases :
          Len(saved.symptom_to_diseases[k]) = 2

\* a key in normal form: not empty, no space at either end, no white space
\* but single blanks, no upper-case letter
Normal(k) ==
    /\ k # <<>>
    /\ k[1] # " " /\ k[Len(k)] # " "
    /\ \A i \in 1..Len(k) : k[i] \notin {"\t", "F", "G"}
    /\ \A i \in 1..(Len(k) - 1) : ~(k[i] = " " /\ k[i + 1] = " ")

\* C21: every key of the index, while it is built and once persisted, is
\* non-empty and a fixed point of the normalization (trimmed, single internal
\* blanks, lower case); the entry of a phenotype term goes to the bucket of
\* its normalized term and to no other bucket, so terms equal after
\* normalization share one bucket.
C21_NormalizedKeys ==
    [][/\ \A ix \in {index', saved'.symptom_to_diseases} : \A k \in DOMAIN ix :
              /\ Normal(k)
              /\ _normalize_symptom(Chars(k)) = Value(k)
       /\ offered' # offered =>
              LET n == _normalize_symptom(hpo_term').v
              IN /\ n \in DOMAIN index'
                 /\ \E e \in Range(index'[n]) :
                        /\ e[1] = ExtractDisease(cur).code
                        /\ e[2] = ExtractDisease(cur).name
                 /\ \A k \in DOMAIN index' \ {n} :
                        k \in DOMAIN index /\ index'[k] = index[k]]_vars

C21_Witness ==
    /\ ipc = "done"
    /\ hpo_term = Chars(<< "F", "\t", " ", "G" >>)
    /\ DOMAIN saved.symptom_to_diseases = {<< "f", " ", "g" >>}
    /\ Len(saved.symptom_to_diseases[<< "f", " ", "g" >>]) = 2
    /\ nSym = 2

\* the (code, name, frequency) triples of a list of result records
TriplesOf(records) ==
    {<< r.orpha_code, r.disease_name, r.frequency >> : r \in records}

\* C22: for two terms A and B, matching or not, the triples returned by
\* query([A, B], match_all=True) are the intersection of the triples returned
\* by query([A]) and by query([B]).
C22_IntersectionLaw ==
    (qpc = "queried" /\ Len(qsymptoms) = 2 /\ qall) =>
        TriplesOf(qresult) =
            TriplesOf(query(s2d, << qsymptoms[1] >>, TRUE))
                \cap TriplesOf(query(s2d, << qsymptoms[2] >>, TRUE))

\* C23: a query all of whose terms have an empty per-term result, and the
\* query of no term, returns nothing, with match_all true and false.
C23_EmptyTerms ==
    (\A i \in 1..Len(qds) : qds[i] = {}) => qresult = {}

C23_Witness ==
    /\ qpc = "queried"
    /\ DOMAIN s2d # {}
    /\ Len(qsymptoms) = 2
    /\ ~qall
    /\ \A i \in 1..2 : qds[i] = {}
    /\ \E i \in 1..2 : _normalize_symptom(qsymptoms[i]).v # <<>>
    /\ qresult = {}

\* the keys of which the normalized query is a substring or that are a
\* substring of it
Near(map, n) == {k \in DOMAIN map : IsSubstring(n, k) \/ IsSubstring(k, n)}

\* the per-term result the fallback rule asks for
ByRule(map, n) ==
    IF n \in DOMAIN map /\ Triples(map[n]) # {} THEN Triples(map[n])
    ELSE UNION {Triples(map[k]) : k \in Near(map, n)}

\* C24 as stated: the per-term result is the exact bucket's triples when that
\* bucket is not empty, and else the triples of every key the normalized
\* query is a substring of or that is a substring of the normalized query.
C24_SubstringFallback ==
    \A i \in 1..Len(qds) :
        qds[i] = ByRule(s2d, _normalize_symptom(qsymptoms[i]).v)

\* C24 amended: the rule holds for a term whose normalization is not empty;
\* a term whose normalization is empty has the empty result.
C24_Amended ==
    \A i \in 1..Len(qds) :
        LET n == _normalize_symptom(qsymptoms[i]).v
        IN IF n = <<>> THEN qds[i] = {}
           ELSE qds[i] = ByRule(s2d, n)

C24_Witness ==
    /\ qpc = "queried"
    /\ DOMAIN s2d = {<< "f", " ", "g" >>, << "g" >>}
    /\ Triples(s2d[<< "g" >>]) # Triples(s2d[<< "f", " ", "g" >>])
    /\ qsymptoms = << Chars(<< "f" >>), Chars(<< "g" >>) >>
    /\ qds = << Triples(s2d[<< "f", " ", "g" >>]), Triples(s2d[<< "g" >>]) >>

Transient(e) ==
    e \in {"requests.Timeout", "requests.ConnectionError", "ConnectionError"}

\* the errors of the HTTP library, and the built-in ConnectionError
LibraryOrConnection(e) ==
    e \in {"requests.Timeout", "requests.ConnectionError",
           "requests.InvalidURL", "ConnectionError"}

\* C26 as stated: a call makes at most 5 attempts; another attempt follows
\* only an attempt that failed with a transient network or connection error;
\* any other error goes to the caller after that attempt; a transient
\* failure of the fifth attempt gives the caller a permanent failure.
C26_BoundedRetry ==
    [][/\ attempt_number' <= 5
       /\ (tpc = "backoff" /\ tpc' = "limit") => Transient(raised)
       /\ (tpc = "sent" /\ raised' # "response" /\ ~Transient(raised')) =>
              (tpc' = "idle" /\ outcome' = raised')
       /\ (tpc = "sent" /\ Transient(raised') /\ attempt_number = 5) =>
              (tpc' = "idle" /\ outcome' = "RetryError")]_vars

\* C26 amended: the errors that are followed by another attempt are all the
\* errors of the HTTP library (transient or not) and the built-in
\* ConnectionError.
C26_Amended ==
    [][/\ attempt_number' <= 5
       /\ (tpc = "backoff" /\ tpc' = "limit") => LibraryOrConnection(raised)
       /\ (tpc = "sent" /\ raised' # "response"
              /\ ~LibraryOrConnection(raised')) =>
              (tpc' = "idle" /\ outcome' = raised')
       /\ (tpc = "sent" /\ LibraryOrConnection(raised')
              /\ attempt_number < 5) =>
              (tpc' = "backoff" /\ outcome' = "none")
       /\ (tpc = "sent" /\ LibraryOrConnection(raised')
              /\ attempt_number = 5) =>
              (tpc' = "idle" /\ outcome' = "RetryError")]_vars

C26_Witness ==
    /\ tpc = "idle"
    /\ attempt_number = 5
    /\ raised = "requests.Timeout"
    /\ outcome = "RetryError"

\* C27: two consecutive outbound requests to one source, by whichever job,
\* first attempt or retry, are at least the source's delay apart.
C27_PerSourceRateLimit ==
    [][(tpc = "limit" /\ tpc' = "sent" /\ sentAt[tinst[2]] >= 0) =>
          sentAt'[tinst[2]] - sentAt[tinst[2]]
              >= _rate_limit_delay(tinst[2])]_vars

\* C28: in the runner, the cleanup is waited for only after the fetch
\* script returned 0 in this run, the build only after the fetch script
\* returned 0 and the cleanup ended (in this run, or in the run that
\* persisted the fetch flag), and after a failed fetch no other stage runs;
\* in the DAG, a task is started only when the task above it has succeeded,
\* and below a failed fetch task nothing is started.
C28_StageOrdering ==
    /\ ppc = "cleanup" => (prc["fetch"] = "0" /\ prc["cleanup"] = "none")
    /\ (ppc = "build" \/ prc["build"] # "none") =>
           \/ prc["fetch"] = "0" /\ prc["cleanup"] # "none"
           \/ prc["fetch"] = "none" /\ prc["cleanup"] = "none"
                 /\ ~preset /\ pstart.exists /\ pstart.fetch = "true"
    /\ prc["fetch"] = "1" =>
           (ppc = "idle" /\ prc["cleanup"] = "none" /\ prc["build"] = "none"
               /\ pexit = "1")
    /\ ppc = "fetch" => prc = NotRun
    /\ task["cleanup_duplicates"] \in {"running", "success", "failed"} =>
           task["fetch_checkpointed"] = "success"
    /\ task["build_symptom_index"] \in {"running", "success", "failed"} =>
           (task["fetch_checkpointed"] = "success"
               /\ task["cleanup_duplicates"] = "success")
    /\ task["fetch_checkpointed"] = "failed" =>
           (task["cleanup_duplicates"] \in {"none", "upstream_failed"}
               /\ task["build_symptom_index"] \in {"none", "upstream_failed"})

C28_Witness ==
    /\ ppc = "idle"
    /\ pruns = 2
    /\ prc = [st \in Stages |-> IF st = "fetch" THEN "1" ELSE "none"]
    /\ pexit = "1"
    /\ task["fetch_checkpointed"] = "failed"
    /\ task["build_symptom_index"] = "upstream_failed"

\* C29: from a missing or reset checkpoint on, whatever fetches fail, the
\* persisted completed list has no key twice and is a prefix of the job
\* order; when it is the full job list after a run that exited 0, the
\* persisted last_error is null.
C29_PrefixInvariant ==
    file.kind = "object" =>
        LET done == file.completed.l
        IN /\ Len(done) <= NJobs
           /\ \A i \in 1..Len(done) : done[i] = CONFIG[i]
           /\ \A i \in 1..Len(done) : \A j \in 1..Len(done) :
                  i # j => done[i] # done[j]
           /\ (RunEnded /\ exit = "ok" /\ done = CONFIG) =>
                  file.last_error = PyNone

C29_Witness ==
    /\ RunEnded
    /\ exit = "ok"
    /\ ~reset
    /\ cp.last_error.t = "str"
    /\ Len(CompletedOf(cp)) = 1
    /\ Len(log) = NJobs - 1
    /\ file = Dump(CONFIG, PyNone)

\* C30: when the cleanup has ended after a fetch script that returned 0, the
\* fetch flag is set and persisted, whatever the cleanup returned; a run
\* without --reset that finds the fetch flag persisted starts neither the
\* fetch script nor the cleanup, and one that finds the symptom_index flag
\* persisted starts no stage; a flag is set only in a run in which its
\* stage's script returned 0.
C30_StageCheckpoint ==
    [][/\ (ppc = "cleanup" /\ ppc' # "cleanup") =>
              (pfile'.exists /\ pfile'.fetch = "true")
       /\ (~preset' /\ pstart'.exists /\ pstart'.fetch = "true") =>
              (ppc' \notin {"fetch", "cleanup"}
                  /\ prc'["fetch"] = "none" /\ prc'["cleanup"] = "none")
       /\ (~preset' /\ pstart'.exists /\ pstart'.symptom_index = "true") =>
              (ppc' = "idle" /\ prc' = NotRun)
       /\ (pfile'.fetch = "true" /\ pfile.fetch # "true") =>
              prc'["fetch"] = "0"
       /\ (pfile'.symptom_index = "true" /\ pfile.symptom_index # "true") =>
              prc'["build"] = "0"]_vars

C30_Witness ==
    /\ pruns = 3
    /\ ~preset
    /\ pstart = pipeline_save_checkpoint([fetch |-> TRUE, symptom_index |-> TRUE])
    /\ ppc = "idle"
    /\ prc = NotRun
    /\ pexit = "0"

TypeOK ==
    /\ pc \in {"idle", "loop", "fetching"} \cup SavePcs
    /\ exit \in {"none", "running", "ok", "fail", "traceback", "killed"}
    /\ idx \in 1..(NJobs + 1)
    /\ opened \in BOOLEAN
    /\ reset \in BOOLEAN

====
